---- MODULE Spec2Model ----
(***************************************************************************)
(* Photo gallery service (internal/service/gallery.go, second variant of   *)
(* the file, lines 317-1108): the upload directory, the metadata directory *)
(* of JSON sidecars, the thumbnail directory, SavePhoto as a sequence of   *)
(* filesystem steps, and the start-up reconciliation pass.                 *)
(* On top of it: the listing functions (sort, filter, unique values), and  *)
(* the HTTP layer, which is AuthService (internal/service/auth.go, first   *)
(* variant, lines 1-95), the handlers package and the routes of main.go.   *)
(*                                                                         *)
(* Strings are sequences of one-character strings, so that filepath.Base,  *)
(* filepath.Ext, strings.TrimSuffix, strings.ToLower and fmt.Sprintf are   *)
(* computed as the Go library computes them.  A time.Time is the integer   *)
(* of its instant, 0 being the zero time (IsZero).                         *)
(***************************************************************************)
EXTENDS Integers, Sequences, FiniteSets, TLC

VARIABLES
    uploads,    \* upload directory: stored filename -> file
    metadata,   \* metadata directory: sidecar filename -> document
    thumbs,     \* thumbnail directory: filename -> thumbnail
    up,         \* per request goroutine: position inside SavePhoto
    rpc,        \* position of NewGalleryService's reconciliation pass
    started,    \* number of SavePhoto calls so far (also the clock)
    env,        \* number of changes made to the directories from outside
    prev,       \* directories as the last completed pass left them
    clobbered,  \* history: some os.Create truncated an existing file
    extracted,  \* history: stored filename -> number of extractPhotoTime
                \* calls made for the file now stored under it
    last,       \* history: the last call of a pure operation and its result
    jar,        \* per client: the gallery-session cookie it holds
    loggedIn,   \* history, per client: it carries the session of an accepted
                \* Login that no Logout has followed
    web,        \* history: the last HTTP response
    batch       \* the upload request HandleUpload is working on

vars == <<uploads, metadata, thumbs, up, rpc, started, env, prev, clobbered, last,
          jar, loggedIn, web, batch, extracted>>

\* the state of the HTTP layer (handlers and AuthService)
httpvars == <<jar, loggedIn, web, batch>>

dirs == <<uploads, metadata, thumbs>>

----------------------------------------------------------------------------
(* Bounds of the model. *)

MaxUploads == 2
MaxEnv == 2
MaxExtractions == 2

Procs == {1, 2}

----------------------------------------------------------------------------
(* Strings. *)

Slash == "/"
Dot == "."
BadByte == "BAD"        \* a byte that is not valid UTF-8
Replacement == "FFFD"   \* U+FFFD, the Unicode replacement rune
Lt == "<"               \* a rune json.Marshal escapes (HTML-safe encoding)
EscapedLt == "\\u003c"

Unknown == <<"U", "n", "k", "n", "o", "w", "n">>
UploadsPrefix == <<"/", "u", "p", "l", "o", "a", "d", "s", "/">>
JsonSuffix == <<".", "j", "s", "o", "n">>

\* strings.HasSuffix
HasSuffix(s, suffix) ==
    /\ Len(suffix) <= Len(s)
    /\ SubSeq(s, Len(s) - Len(suffix) + 1, Len(s)) = suffix

\* strings.TrimSuffix
TrimSuffix(s, suffix) ==
    IF HasSuffix(s, suffix) THEN SubSeq(s, 1, Len(s) - Len(suffix)) ELSE s

\* strings.ToLower on the runes the model uses
LowerRune(c) ==
    CASE c = "J" -> "j"
      [] c = "P" -> "p"
      [] c = "G" -> "g"
      [] c = "N" -> "n"
      [] OTHER -> c

ToLower(s) == [i \in 1..Len(s) |-> LowerRune(s[i])]

\* index of the last occurrence of rune c in s, 0 when there is none
LastIndex(s, c) ==
    IF \E i \in 1..Len(s) : s[i] = c
    THEN CHOOSE i \in 1..Len(s) : s[i] = c /\ \A j \in (i+1)..Len(s) : s[j] # c
    ELSE 0

\* s without its trailing slashes
RECURSIVE StripTrailingSlashes(_)
StripTrailingSlashes(s) ==
    IF Len(s) > 0 /\ s[Len(s)] = Slash
    THEN StripTrailingSlashes(SubSeq(s, 1, Len(s) - 1))
    ELSE s

\* filepath.Base: the last element of the path; "." for the empty path and
\* "/" for a path of slashes only.
Base(path) ==
    IF path = <<>> THEN <<Dot>>
    ELSE LET p == StripTrailingSlashes(path)
         IN  IF p = <<>> THEN <<Slash>>
             ELSE SubSeq(p, LastIndex(p, Slash) + 1, Len(p))

\* filepath.Ext: the suffix beginning at the final dot in the final element
\* of the path; empty if there is no dot.
Ext(path) ==
    LET d == LastIndex(path, Dot)
        sl == LastIndex(path, Slash)
    IN  IF d > sl THEN SubSeq(path, d, Len(path)) ELSE <<>>

Digit(n) == CASE n = 0 -> "0" [] n = 1 -> "1" [] n = 2 -> "2" [] n = 3 -> "3"
              [] n = 4 -> "4" [] n = 5 -> "5" [] n = 6 -> "6" [] n = 7 -> "7"
              [] n = 8 -> "8" [] n = 9 -> "9"

\* the %d verb of fmt.Sprintf for n >= 0
RECURSIVE Itoa(_)
Itoa(n) == IF n < 10 THEN <<Digit(n)>> ELSE Itoa(n \div 10) \o <<Digit(n % 10)>>

----------------------------------------------------------------------------
(* Directories as finite maps. *)

EmptyDir == [x \in {} |-> 0]

Put(dir, name, v) == [x \in DOMAIN dir \cup {name} |-> IF x = name THEN v ELSE dir[x]]

Remove(dir, names) == [x \in DOMAIN dir \ names |-> dir[x]]

\* the counts ex after one more extractPhotoTime call for each of files;
\* a count above MaxExtractions is kept as MaxExtractions
CountExtractions(ex, files) ==
    [x \in DOMAIN ex \cup files |->
        IF x \in files
        THEN LET n == IF x \in DOMAIN ex THEN ex[x] ELSE 0
             IN  IF n < MaxExtractions THEN n + 1 ELSE MaxExtractions
        ELSE ex[x]]

----------------------------------------------------------------------------
(* PhotoInfo and its JSON encoding (encoding/json, time.Time.MarshalJSON). *)

PhotoInfo(path, name, uploader, event, date, photoTime) ==
    [Path |-> path, Name |-> name, Uploader |-> uploader, Event |-> event,
     Date |-> date, PhotoTime |-> photoTime]

\* PhotoInfo{}: the zero value
EmptyPhotoInfo == PhotoInfo(<<>>, <<>>, <<>>, <<>>, 0, 0)

\* time.Time.MarshalJSON fails for a year outside [0,9999]: instants after
\* LastEncodableInstant stand for those years.
LastEncodableInstant == 4

TimeEncodable(t) == t <= LastEncodableInstant

\* json.Marshal of a string: invalid UTF-8 is coerced to U+FFFD, and '<' is
\* written as the six characters of its \\u escape.
EncodeString(s) ==
    [i \in 1..Len(s) |->
        IF s[i] = BadByte THEN Replacement
        ELSE IF s[i] = Lt THEN EscapedLt
        ELSE s[i]]

\* mutant: escapes are not decoded
DecodeStringRaw(e) == e

\* json.Unmarshal of a string
DecodeString(e) ==
    [i \in 1..Len(e) |->
        IF e[i] = EscapedLt THEN Lt
        ELSE IF e[i] = BadByte THEN Replacement
        ELSE e[i]]

\* RFC 3339 text of an instant, and its parse
EncodeTime(t) == <<"rfc3339", t>>
DecodeTime(e) == e[2]

MarshalError == [kind |-> "error"]

\* a file whose bytes are not a JSON object (truncated write, garbage)
CorruptDoc == [kind |-> "garbage"]

\* json.Marshal(info)
Marshal(info) ==
    IF ~TimeEncodable(info.Date) \/ ~TimeEncodable(info.PhotoTime)
    THEN MarshalError
    ELSE [kind |-> "json",
          path |-> EncodeString(info.Path),
          name |-> EncodeString(info.Name),
          uploader |-> EncodeString(info.Uploader),
          event |-> EncodeString(info.Event),
          date |-> EncodeTime(info.Date),
          photo_time |-> EncodeTime(info.PhotoTime)]

\* json.Unmarshal(data, &info) succeeds
Parses(doc) == doc.kind = "json"

\* the PhotoInfo json.Unmarshal fills in
Unmarshal(doc) ==
    PhotoInfo(DecodeString(doc.path), DecodeString(doc.name),
              DecodeString(doc.uploader), DecodeString(doc.event),
              DecodeTime(doc.date), DecodeTime(doc.photo_time))

\* the metadata directory after savePhotoMetadata(filename, info)
savePhotoMetadata(md, filename, info) ==
    LET metadataFile == filename \o JsonSuffix
        data == Marshal(info)
    IN  IF data = MarshalError THEN md ELSE Put(md, metadataFile, data)

\* mutant: on a parse error the part-filled info is returned, not PhotoInfo{}
loadPhotoMetadataPartial(md, filename) ==
    LET metadataFile == filename \o JsonSuffix
    IN  IF metadataFile \notin DOMAIN md THEN EmptyPhotoInfo
        ELSE IF ~Parses(md[metadataFile])
             THEN [EmptyPhotoInfo EXCEPT !.Path = UploadsPrefix \o filename]
        ELSE Unmarshal(md[metadataFile])

\* what loadPhotoMetadata(filename) returns
loadPhotoMetadata(md, filename) ==
    LET metadataFile == filename \o JsonSuffix
    IN  IF metadataFile \notin DOMAIN md THEN EmptyPhotoInfo
        ELSE IF ~Parses(md[metadataFile]) THEN EmptyPhotoInfo
        ELSE Unmarshal(md[metadataFile])

----------------------------------------------------------------------------
(* Recognition of images. *)

validTypes == {"image/jpeg", "image/jpg", "image/png", "image/gif", "image/webp"}

\* mutant: every image/... type is accepted, whatever its case
isValidImageTypeAnyImage(contentType) == contentType # "text/plain"

isValidImageType(contentType) == contentType \in validTypes

validExts == {<<".", "j", "p", "g">>, <<".", "j", "p", "e", "g">>,
              <<".", "p", "n", "g">>, <<".", "g", "i", "f">>,
              <<".", "w", "e", "b", "p">>}

isImageFile(filename) == ToLower(Ext(filename)) \in validExts

----------------------------------------------------------------------------
(* File contents.  A body is what the bytes of an image file determine:    *)
(* whether image.Decode accepts them, what exiftool reports and what the   *)
(* in-process EXIF parser reports (0: no date).                            *)

Body(decodable, tool, exif) == [decodable |-> decodable, tool |-> tool, exif |-> exif]

\* a file os.Create has just created or truncated, and one io.Copy left
\* part-written
EmptyBody == Body(FALSE, 0, 0)

File(ticket, mtime, body) ==
    [ticket |-> ticket, mtime |-> mtime, body |-> body, dir |-> FALSE]

\* an entry of the upload directory that is a directory
Directory(mtime) == [File(0, mtime, EmptyBody) EXCEPT !.dir = TRUE]

\* os.DirEntry.IsDir
IsDir(file) == file.dir

extractPhotoTimeWithExifTool(body) == body.tool

extractExifPhotoTime(body) == body.exif

extractPhotoTime(body) ==
    IF extractPhotoTimeWithExifTool(body) # 0 THEN extractPhotoTimeWithExifTool(body)
    ELSE IF extractExifPhotoTime(body) # 0 THEN extractExifPhotoTime(body)
    ELSE 0

\* the thumbnail directory after generateThumbnail(originalPath, thumbnailPath);
\* fault names the step that fails for a reason other than the bytes
\* ("none", "create", "encode")
generateThumbnail(th, up_, filename, fault) ==
    IF filename \notin DOMAIN up_ THEN th                   \* os.Open fails
    ELSE IF ~up_[filename].body.decodable THEN th           \* image.Decode fails
    ELSE IF fault = "create" THEN th                        \* os.Create fails
    ELSE IF fault = "encode"
         THEN Put(th, filename, [of |-> up_[filename].ticket, complete |-> FALSE])
         ELSE Put(th, filename, [of |-> up_[filename].ticket, complete |-> TRUE])

----------------------------------------------------------------------------
(* Listing: the sort of GetPhotos, FilterPhotos and getUniqueValues.       *)

\* the characters of the model's strings in the order of their bytes; the
\* replacement character (EF BF BD) and the invalid byte (FF) come last
Alphabet ==
    <<".", "/", "0", "1", "2", "3", "4", "5", "6", "7", "8", "9", "<",
      "A", "B", "E", "G", "J", "P", "X", "Y", "_",
      "a", "b", "d", "e", "g", "j", "l", "n", "o", "p", "s", "t", "u", "w", "x",
      Replacement, BadByte>>

Ord(c) == CHOOSE i \in 1..Len(Alphabet) : Alphabet[i] = c

\* a > b on Go strings: the first differing byte decides, else the length
StringGreater(a, b) ==
    LET n == IF Len(a) < Len(b) THEN Len(a) ELSE Len(b)
        differ == {i \in 1..n : a[i] # b[i]}
    IN  IF differ = {} THEN Len(a) > Len(b)
        ELSE LET i == CHOOSE k \in differ : \A m \in differ : k <= m
             IN  Ord(a[i]) > Ord(b[i])

\* photos[i], photos[j] = photos[j], photos[i]
Swap(s, i, j) == [s EXCEPT ![i] = s[j], ![j] = s[i]]

\* mutant: the sort key is the upload time alone
EffectiveTimeUploadOnly(photo) == photo.Date

\* timeI of the sort: PhotoTime, or Date if PhotoTime.IsZero()
EffectiveTime(photo) == IF photo.PhotoTime = 0 THEN photo.Date ELSE photo.PhotoTime

\* the inner loop of the sort, for j := i + 1; j < len(photos); j++
RECURSIVE SortPhotosInner(_, _, _)
SortPhotosInner(photos, i, j) ==
    IF j > Len(photos) THEN photos
    ELSE SortPhotosInner(
            IF EffectiveTime(photos[i]) < EffectiveTime(photos[j])  \* timeI.Before(timeJ)
            THEN Swap(photos, i, j) ELSE photos,
            i, j + 1)

\* the outer loop of the sort, for i := 0; i < len(photos)-1; i++
RECURSIVE SortPhotosOuter(_, _)
SortPhotosOuter(photos, i) ==
    IF i >= Len(photos) THEN photos
    ELSE SortPhotosOuter(SortPhotosInner(photos, i, i + 1), i + 1)

SortPhotos(photos) == SortPhotosOuter(photos, 1)

\* mutant: a photo passes when either filter accepts it
PassesEitherFilter(photo, eventFilter, uploaderFilter) ==
    \/ eventFilter = <<>> /\ uploaderFilter = <<>>
    \/ eventFilter # <<>> /\ photo.Event = eventFilter
    \/ uploaderFilter # <<>> /\ photo.Uploader = uploaderFilter

\* the body of FilterPhotos' loop does not `continue`
PassesFilters(photo, eventFilter, uploaderFilter) ==
    /\ ~(eventFilter # <<>> /\ photo.Event # eventFilter)
    /\ ~(uploaderFilter # <<>> /\ photo.Uploader # uploaderFilter)

RECURSIVE FilterPhotosLoop(_, _, _, _)
FilterPhotosLoop(photos, eventFilter, uploaderFilter, filtered) ==
    IF photos = <<>> THEN filtered
    ELSE FilterPhotosLoop(Tail(photos), eventFilter, uploaderFilter,
            IF PassesFilters(Head(photos), eventFilter, uploaderFilter)
            THEN Append(filtered, Head(photos)) ELSE filtered)

FilterPhotos(photos, eventFilter, uploaderFilter) ==
    FilterPhotosLoop(photos, eventFilter, uploaderFilter, <<>>)

\* mutant: a value is appended every time it is met
AppendEvery(values, value) ==
    IF value # <<>> THEN Append(values, value) ELSE values

\* if value != "" && !valueSet[value] { valueSet[value] = true; append }
AppendUnique(values, value) ==
    IF value # <<>> /\ ~(\E k \in 1..Len(values) : values[k] = value)
    THEN Append(values, value) ELSE values

\* the first loop of getUniqueValues; field names the extractor
RECURSIVE CollectValues(_, _, _)
CollectValues(photos, field, values) ==
    IF photos = <<>> THEN values
    ELSE CollectValues(Tail(photos), field,
            AppendUnique(values, IF field = "Event" THEN Head(photos).Event
                                                    ELSE Head(photos).Uploader))

\* the bubble sort of getUniqueValues
RECURSIVE SortValuesInner(_, _, _)
SortValuesInner(values, i, j) ==
    IF j > Len(values) THEN values
    ELSE SortValuesInner(
            IF StringGreater(values[i], values[j]) THEN Swap(values, i, j) ELSE values,
            i, j + 1)

RECURSIVE SortValuesOuter(_, _)
SortValuesOuter(values, i) ==
    IF i >= Len(values) THEN values
    ELSE SortValuesOuter(SortValuesInner(values, i, i + 1), i + 1)

getUniqueValues(photos, field) ==
    SortValuesOuter(CollectValues(photos, field, <<>>), 1)

GetUniqueEvents(photos) == getUniqueValues(photos, "Event")

GetUniqueUploaders(photos) == getUniqueValues(photos, "Uploader")

\* os.ReadDir: the names of a directory, sorted by filename
RECURSIVE ReadDir(_)
ReadDir(names) ==
    IF names = {} THEN <<>>
    ELSE LET first == CHOOSE n \in names :
                        \A m \in names : m = n \/ StringGreater(m, n)
         IN  <<first>> \o ReadDir(names \ {first})

\* mutant: no fallback for a photo without metadata
GetPhotoInfoLoaded(up_, md, filename, now) == loadPhotoMetadata(md, filename)

\* the record GetPhotos uses for one listed file
GetPhotoInfo(up_, md, filename, now) ==
    LET photoInfo == loadPhotoMetadata(md, filename)
    IN  IF photoInfo.Path = <<>>
        THEN PhotoInfo(UploadsPrefix \o filename, filename, Unknown, <<>>,
                       now, extractPhotoTime(up_[filename].body))
        ELSE photoInfo

\* the first loop of GetPhotos over the listing `files`
RECURSIVE GetPhotosLoop(_, _, _, _, _)
GetPhotosLoop(up_, md, files, now, photos) ==
    IF files = <<>> THEN photos
    ELSE GetPhotosLoop(up_, md, Tail(files), now,
            IF ~IsDir(up_[Head(files)]) /\ isImageFile(Head(files))
            THEN Append(photos, GetPhotoInfo(up_, md, Head(files), now))
            ELSE photos)

GetPhotos(up_, md, now) ==
    SortPhotos(GetPhotosLoop(up_, md, ReadDir(DOMAIN up_), now, <<>>))

\* the entries CreateZipArchive writes: a photo whose file cannot be opened
\* is skipped
RECURSIVE CreateZipArchive(_, _)
CreateZipArchive(up_, photos) ==
    IF photos = <<>> THEN <<>>
    ELSE LET filename == Base(Head(photos).Path)
         IN  (IF filename \in DOMAIN up_ THEN <<filename>> ELSE <<>>)
             \o CreateZipArchive(up_, Tail(photos))

\* ServePhoto finds the file: os.Stat does not report IsNotExist
ServePhoto(up_, filename) ==
    filename \in DOMAIN up_ \/ filename \in {<<>>, <<Dot>>, <<Dot, Dot>>}

\* ServeThumbnail finds the thumbnail: os.Stat does not report IsNotExist
ServeThumbnail(th, filename) ==
    filename \in DOMAIN th \/ filename \in {<<>>, <<Dot>>, <<Dot, Dot>>}

\* generateThumbnail returns an error
generateThumbnailFails(up_, filename, fault) ==
    \/ filename \notin DOMAIN up_
    \/ ~up_[filename].body.decodable
    \/ fault # "none"

----------------------------------------------------------------------------
(* Inputs. *)

NameA == <<"a", ".", "J", "P", "G">>
NameA1 == <<"a", "_", "1", ".", "J", "P", "G">>
NameTxt == <<"n", ".", "t", "x", "t">>

\* original filenames a client sends
UploadNames == {NameA, NameTxt}

\* files put into the upload directory from outside the service
ExternalNames == {NameA1}

\* declared content types: two accepted ones, one that differs from an
\* accepted one only in case, and one of another kind
ContentTypes == {"image/jpeg", "image/webp", "image/JPEG", "text/plain"}

Users == {<<"A">>}

Events == {<<"E">>}

UploadBodies == {Body(TRUE, 0, 2), Body(FALSE, 0, 0)}

ExternalBodies == {Body(TRUE, 1, 2)}

ExternalTimes == {1}

Faults == {"none", "create", "encode"}

----------------------------------------------------------------------------
(* State. *)

Idle == [pc |-> "idle", orig |-> <<>>, counter |-> 0, filename |-> <<>>,
         user |-> <<>>, event |-> <<>>, body |-> EmptyBody, ticket |-> 0,
         err |-> FALSE, ctype |-> "", thumbErr |-> FALSE]

\* prev: no pass has completed since the directories last changed
NoSnap == [set |-> FALSE, again |-> FALSE, snap |-> <<>>]

NoOp == [op |-> "none"]

\* browsers that talk to the server
Clients == {1, 2}

\* the client holds no gallery-session cookie
NoCookie == [sent |-> FALSE, valid |-> FALSE, set |-> FALSE,
             authenticated |-> FALSE, maxAge |-> 0]

\* store.Options.MaxAge: 7 days
SessionMaxAge == 604800

\* a cookie written by session.Save: Values["authenticated"] and Max-Age
SessionCookie(authenticated, maxAge) ==
    [sent |-> TRUE, valid |-> TRUE, set |-> TRUE,
     authenticated |-> authenticated, maxAge |-> maxAge]

\* a cookie securecookie cannot decode (wrong signature, damaged value)
TamperedCookie == [sent |-> TRUE, valid |-> FALSE, set |-> FALSE,
                   authenticated |-> FALSE, maxAge |-> 0]

\* what the last handler did: the request's client and whether
\* IsAuthenticated held for it, the status written, whether the handler went
\* on to the photos (performed), the names of the photos delivered (content),
\* and the inputs and results the handlers differ in
NoResponse ==
    [op |-> "none", client |-> 0, authed |-> FALSE, status |-> 0,
     performed |-> FALSE, content |-> <<>>, events |-> <<>>, uploaders |-> <<>>,
     files |-> <<>>, outcomes |-> <<>>, password |-> <<>>, ok |-> FALSE,
     eventFilter |-> <<>>, uploaderFilter |-> <<>>, archive |-> FALSE]

\* HandleUpload is between requests
NoBatch == [active |-> FALSE, client |-> 0, user |-> <<>>, event |-> <<>>,
            files |-> <<>>, pending |-> <<>>, current |-> <<>>, ticket |-> 0,
            outcomes |-> <<>>]

Quiescent == \A p \in Procs : up[p].pc = "idle"

Init ==
    /\ uploads = EmptyDir
    /\ metadata = EmptyDir
    /\ thumbs = EmptyDir
    /\ up = [p \in Procs |-> Idle]
    /\ rpc = "genMetadata"
    /\ started = 0
    /\ env = 0
    /\ prev = NoSnap
    /\ clobbered = FALSE
    /\ extracted = EmptyDir
    /\ last = NoOp
    /\ jar = [c \in Clients |-> NoCookie]
    /\ loggedIn = [c \in Clients |-> FALSE]
    /\ web = NoResponse
    /\ batch = NoBatch

\* time.Now()
Now == started

----------------------------------------------------------------------------
(* SavePhoto, one filesystem call at a time. *)

\* mutant: the existence test looks into a directory that holds no upload
StatExistsElsewhere(name) == name \in {<<>>, <<Dot>>, <<Dot, Dot>>}

\* os.Stat(filepath.Join(uploadDir, name)) does not report IsNotExist
\* (the names "", "." and ".." join to the upload directory or its parent)
StatExists(name) == name \in DOMAIN uploads \/ name \in {<<>>, <<Dot>>, <<Dot, Dot>>}

\* fmt.Sprintf("%s_%d%s", nameWithoutExt, counter, ext)
CandidateName(originalFilename, counter) ==
    LET ext == Ext(originalFilename)
        nameWithoutExt == TrimSuffix(originalFilename, ext)
    IN  nameWithoutExt \o <<"_">> \o Itoa(counter) \o ext

\* the goroutine leaves SavePhoto with an error
Fail(p) == up' = [up EXCEPT ![p].pc = "return", ![p].err = TRUE]

\* SavePhoto up to the first os.Stat of generateUniqueFilename
SavePhotoBegin(p, filename, contentType, userName, eventName, body, openOk) ==
    /\ rpc = "serving"
    /\ up[p].pc = "idle"
    /\ started < MaxUploads
    /\ started' = started + 1
    /\ LET originalFilename == Base(filename)
           call == [Idle EXCEPT !.orig = originalFilename, !.user = userName,
                                !.event = eventName, !.body = body,
                                !.ticket = started + 1, !.ctype = contentType]
       IN  up' = [up EXCEPT ![p] =
                IF ~isValidImageType(contentType) \/ ~openOk
                THEN [Idle EXCEPT !.pc = "return", !.err = TRUE,
                                  !.ticket = started + 1, !.ctype = contentType]
                ELSE IF ~StatExists(originalFilename)
                THEN [call EXCEPT !.pc = "create", !.filename = originalFilename]
                ELSE [call EXCEPT !.pc = "stat", !.counter = 1]]
    /\ prev' = NoSnap
    /\ UNCHANGED <<uploads, metadata, thumbs, rpc, env, clobbered, last, httpvars, extracted>>

\* one round of the loop of generateUniqueFilename
SavePhotoStat(p) ==
    /\ up[p].pc = "stat"
    /\ LET newFilename == CandidateName(up[p].orig, up[p].counter)
       IN  up' = [up EXCEPT ![p] =
                IF ~StatExists(newFilename)
                THEN [@ EXCEPT !.pc = "create", !.filename = newFilename]
                ELSE [@ EXCEPT !.counter = @ + 1]]
    /\ UNCHANGED <<uploads, metadata, thumbs, rpc, started, env, prev, clobbered, last, httpvars, extracted>>

\* os.Create(filePath)
SavePhotoCreate(p, ok) ==
    /\ up[p].pc = "create"
    /\ IF ok
       THEN /\ uploads' = Put(uploads, up[p].filename,
                              File(up[p].ticket, Now, EmptyBody))
            /\ clobbered' = (clobbered \/ up[p].filename \in DOMAIN uploads)
            /\ extracted' = Put(extracted, up[p].filename, 0)
            /\ up' = [up EXCEPT ![p].pc = "copy"]
       ELSE /\ Fail(p)
            /\ UNCHANGED <<uploads, clobbered, extracted>>
    /\ UNCHANGED <<metadata, thumbs, rpc, started, env, prev, last, httpvars>>

\* io.Copy(dst, file)
SavePhotoCopy(p, ok) ==
    /\ up[p].pc = "copy"
    /\ IF ok
       THEN /\ uploads' = Put(uploads, up[p].filename,
                              File(up[p].ticket, Now, up[p].body))
            /\ up' = [up EXCEPT ![p].pc = "thumbnail"]
       ELSE /\ Fail(p)
            /\ UNCHANGED uploads
    /\ UNCHANGED <<metadata, thumbs, rpc, started, env, prev, clobbered, last, httpvars, extracted>>

\* generateThumbnail(filePath, thumbnailPath), its error only logged
SavePhotoThumbnail(p, fault) ==
    /\ up[p].pc = "thumbnail"
    /\ thumbs' = generateThumbnail(thumbs, uploads, up[p].filename, fault)
    /\ up' = [up EXCEPT ![p].pc = "metadata",
                         ![p].thumbErr = generateThumbnailFails(uploads, up[p].filename, fault)]
    /\ UNCHANGED <<uploads, metadata, rpc, started, env, prev, clobbered, last, httpvars, extracted>>

\* extractPhotoTime(filePath) and savePhotoMetadata(filename, &photoInfo)
SavePhotoMetadata(p) ==
    /\ up[p].pc = "metadata"
    /\ LET filename == up[p].filename
           photoTime == IF filename \in DOMAIN uploads
                        THEN extractPhotoTime(uploads[filename].body)
                        ELSE 0
           photoInfo == PhotoInfo(UploadsPrefix \o filename, filename,
                                  up[p].user, up[p].event, Now, photoTime)
       IN  /\ metadata' = savePhotoMetadata(metadata, filename, photoInfo)
           /\ extracted' = CountExtractions(extracted, {filename} \cap DOMAIN uploads)
    /\ up' = [up EXCEPT ![p].pc = "return"]
    /\ UNCHANGED <<uploads, thumbs, rpc, started, env, prev, clobbered, last, httpvars>>

\* SavePhoto returns to HandleUpload
SavePhotoReturn(p) ==
    /\ up[p].pc = "return"
    /\ up' = [up EXCEPT ![p] = Idle]
    /\ UNCHANGED <<uploads, metadata, thumbs, rpc, started, env, prev, clobbered, last, httpvars, extracted>>

----------------------------------------------------------------------------
(* The reconciliation pass of NewGalleryService.  It runs before the       *)
(* server accepts requests, so each of its four loops is one step.         *)

\* mutant: the upload time is the time of the pass, not the file's
DefaultInfoNow(filename, file) ==
    PhotoInfo(UploadsPrefix \o filename, filename, Unknown, <<>>,
              Now, extractPhotoTime(file.body))

\* the record GenerateMissingMetadata writes for a file without a sidecar
DefaultInfo(filename, file) ==
    PhotoInfo(UploadsPrefix \o filename, filename, Unknown, <<>>,
              file.mtime, extractPhotoTime(file.body))

\* mutant: the loop does not skip a file that has a sidecar
MetadataExistsNever(md, filename) == FALSE

\* the loop's test "metadata already exists": os.Stat(metadataFile) succeeds
MetadataExists(md, filename) == (filename \o JsonSuffix) \in DOMAIN md

\* the loop of GenerateMissingMetadata over the listing `files`
RECURSIVE GenerateMetadataLoop(_, _)
GenerateMetadataLoop(md, files) ==
    IF files = {} THEN md
    ELSE LET file == CHOOSE f \in files : TRUE
             next == IF ~isImageFile(file) THEN md
                     ELSE IF MetadataExists(md, file) THEN md
                     ELSE savePhotoMetadata(md, file, DefaultInfo(file, uploads[file]))
         IN  GenerateMetadataLoop(next, files \ {file})

\* the files the loop calls extractPhotoTime for
MissingMetadata(up_, md) ==
    {file \in DOMAIN up_ : isImageFile(file) /\ ~MetadataExists(md, file)}

GenerateMissingMetadata ==
    /\ rpc = "genMetadata"
    /\ metadata' = GenerateMetadataLoop(metadata, DOMAIN uploads)
    /\ extracted' = CountExtractions(extracted, MissingMetadata(uploads, metadata))
    /\ rpc' = "genThumbnails"
    /\ UNCHANGED <<uploads, thumbs, up, started, env, prev, clobbered, last, httpvars>>

\* mutant: every thumbnail is taken to be missing
ThumbnailExistsNever(th, file) == FALSE

\* os.Stat(thumbnailPath) returns no error: "Thumbnail already exists"
ThumbnailExists(th, file) == file \in DOMAIN th

\* the loop of GenerateMissingThumbnails over the listing `files`
RECURSIVE GenerateThumbnailsLoop(_, _)
GenerateThumbnailsLoop(th, files) ==
    IF files = {} THEN th
    ELSE LET file == CHOOSE f \in files : TRUE
             next == IF ~isImageFile(file) THEN th
                     ELSE IF ThumbnailExists(th, file) THEN th
                     ELSE generateThumbnail(th, uploads, file, "none")
         IN  GenerateThumbnailsLoop(next, files \ {file})

GenerateMissingThumbnails ==
    /\ rpc = "genThumbnails"
    /\ thumbs' = GenerateThumbnailsLoop(thumbs, DOMAIN uploads)
    /\ rpc' = "cleanMetadata"
    /\ UNCHANGED <<uploads, metadata, up, started, env, prev, clobbered, last, httpvars, extracted>>

\* mutant: the source is looked up in the thumbnail directory
OrphanedMetadataByThumbnail(md) ==
    {metadataFile \in DOMAIN md :
        /\ HasSuffix(metadataFile, JsonSuffix)
        /\ TrimSuffix(metadataFile, JsonSuffix) \notin DOMAIN thumbs}

\* the sidecars CleanupOrphanedMetadata removes
OrphanedMetadata(md) ==
    {metadataFile \in DOMAIN md :
        /\ HasSuffix(metadataFile, JsonSuffix)
        /\ ~StatExists(TrimSuffix(metadataFile, JsonSuffix))}

CleanupOrphanedMetadata ==
    /\ rpc = "cleanMetadata"
    /\ metadata' = Remove(metadata, OrphanedMetadata(metadata))
    /\ rpc' = "cleanThumbnails"
    /\ UNCHANGED <<uploads, thumbs, up, started, env, prev, clobbered, last, httpvars, extracted>>

\* the thumbnails CleanupOrphanedThumbnails removes
OrphanedThumbnails(th) ==
    {thumbnailFile \in DOMAIN th :
        /\ isImageFile(thumbnailFile)
        /\ ~StatExists(thumbnailFile)}

\* the last loop; NewGalleryService returns and the server starts serving
CleanupOrphanedThumbnails ==
    /\ rpc = "cleanThumbnails"
    /\ thumbs' = Remove(thumbs, OrphanedThumbnails(thumbs))
    /\ rpc' = "serving"
    /\ prev' = IF prev.set
               THEN [prev EXCEPT !.again = TRUE]
               ELSE [set |-> TRUE, again |-> FALSE,
                     snap |-> <<uploads, metadata, thumbs'>>]
    /\ UNCHANGED <<uploads, metadata, up, started, env, clobbered, last, httpvars, extracted>>

\* the process is started again: main calls NewGalleryService
Restart ==
    /\ rpc = "serving"
    /\ Quiescent
    /\ rpc' = "genMetadata"
    /\ UNCHANGED <<uploads, metadata, thumbs, up, started, env, prev, clobbered, last, httpvars, extracted>>

----------------------------------------------------------------------------
(* Changes to the directories from outside the service, between requests. *)

\* an image file is copied into the upload directory
ExternalAdd(name, body, mtime) ==
    /\ rpc = "serving" /\ Quiescent /\ env < MaxEnv
    /\ name \notin DOMAIN uploads
    /\ uploads' = Put(uploads, name, File(0, mtime, body))
    /\ extracted' = Put(extracted, name, 0)
    /\ env' = env + 1
    /\ prev' = NoSnap
    /\ UNCHANGED <<metadata, thumbs, up, rpc, started, clobbered, last, httpvars>>

\* a stored file is deleted from the upload directory
ExternalDelete(name) ==
    /\ rpc = "serving" /\ Quiescent /\ env < MaxEnv
    /\ name \in DOMAIN uploads
    /\ uploads' = Remove(uploads, {name})
    /\ extracted' = Remove(extracted, {name})
    /\ env' = env + 1
    /\ prev' = NoSnap
    /\ UNCHANGED <<metadata, thumbs, up, rpc, started, clobbered, last, httpvars>>

\* a sidecar is left unparseable (a write cut short, a damaged disk)
CorruptSidecar(metadataFile) ==
    /\ rpc = "serving" /\ Quiescent /\ env < MaxEnv
    /\ metadataFile \in DOMAIN metadata
    /\ Parses(metadata[metadataFile])
    /\ metadata' = Put(metadata, metadataFile, CorruptDoc)
    /\ env' = env + 1
    /\ prev' = NoSnap
    /\ last' = NoOp
    /\ UNCHANGED <<uploads, thumbs, up, rpc, started, clobbered, httpvars, extracted>>

----------------------------------------------------------------------------
(* Specifications. *)

Reconcile ==
    \/ GenerateMissingMetadata
    \/ GenerateMissingThumbnails
    \/ CleanupOrphanedMetadata
    \/ CleanupOrphanedThumbnails
    \/ Restart

Environment ==
    \/ \E name \in ExternalNames, body \in ExternalBodies, mtime \in ExternalTimes :
            ExternalAdd(name, body, mtime)
    \/ \E name \in DOMAIN uploads : ExternalDelete(name)
    \/ \E metadataFile \in DOMAIN metadata : CorruptSidecar(metadataFile)

Begin(p) ==
    \E filename \in UploadNames, contentType \in ContentTypes, userName \in Users,
       eventName \in Events, body \in UploadBodies, openOk \in BOOLEAN :
            SavePhotoBegin(p, filename, contentType, userName, eventName, body, openOk)

Continue(p) ==
    \/ SavePhotoStat(p)
    \/ \E ok \in BOOLEAN : SavePhotoCreate(p, ok)
    \/ \E ok \in BOOLEAN : SavePhotoCopy(p, ok)
    \/ \E fault \in Faults : SavePhotoThumbnail(p, fault)
    \/ SavePhotoMetadata(p)
    \/ SavePhotoReturn(p)

\* requests are served concurrently, one goroutine each
Next ==
    \/ \E p \in Procs : Begin(p)
    \/ \E p \in Procs : Continue(p)
    \/ Reconcile
    \/ Environment

Spec == Init /\ [][Next]_vars

\* one SavePhoto call at a time
SeqProc == CHOOSE p \in Procs : TRUE

NextSeq ==
    \/ Quiescent /\ Begin(SeqProc)
    \/ Continue(SeqProc)
    \/ Reconcile
    \/ Environment

SpecSeq == Init /\ [][NextSeq]_vars

----------------------------------------------------------------------------
(* The metadata store on its own: savePhotoMetadata and loadPhotoMetadata  *)
(* applied to records drawn from bounded sets.                             *)

StoreNames == {NameA, <<BadByte, ".", "j", "p", "g">>}

StoreUploaders == {<<"A">>, <<Lt>>, <<BadByte>>}

StoreEvents == {<<>>, <<"E">>}

StoreDates == {1, LastEncodableInstant + 1}

StorePhotoTimes == {0, 2}

\* what os.ReadFile and json.Unmarshal meet at the sidecar of filename
SidecarState(md, filename) ==
    IF (filename \o JsonSuffix) \notin DOMAIN md THEN "missing"
    ELSE IF ~Parses(md[filename \o JsonSuffix]) THEN "corrupt"
    ELSE "parsed"

StoreSave(filename, info) ==
    /\ metadata' = savePhotoMetadata(metadata, filename, info)
    /\ last' = [op |-> "save", filename |-> filename, info |-> info]
    /\ UNCHANGED <<uploads, thumbs, up, rpc, started, env, prev, clobbered, httpvars, extracted>>

StoreLoad(filename) ==
    /\ last' = [op |-> "load", filename |-> filename,
                info |-> loadPhotoMetadata(metadata, filename),
                found |-> SidecarState(metadata, filename),
                saved |-> IF last.op = "save" /\ last.filename = filename
                          THEN <<last.info>> ELSE <<>>,
                before |-> dirs]
    /\ UNCHANGED <<uploads, metadata, thumbs, up, rpc, started, env, prev, clobbered, httpvars, extracted>>

InitStore ==
    /\ uploads = EmptyDir
    /\ metadata = EmptyDir
    /\ thumbs = EmptyDir
    /\ up = [p \in Procs |-> Idle]
    /\ rpc = "serving"
    /\ started = 0
    /\ env = 0
    /\ prev = NoSnap
    /\ clobbered = FALSE
    /\ extracted = EmptyDir
    /\ last = NoOp
    /\ jar = [c \in Clients |-> NoCookie]
    /\ loggedIn = [c \in Clients |-> FALSE]
    /\ web = NoResponse
    /\ batch = NoBatch

NextStore ==
    \/ \E filename \in StoreNames, uploader \in StoreUploaders, event \in StoreEvents,
          date \in StoreDates, photoTime \in StorePhotoTimes :
            StoreSave(filename, PhotoInfo(UploadsPrefix \o filename, filename,
                                          uploader, event, date, photoTime))
    \/ \E filename \in StoreNames : StoreLoad(filename)
    \/ \E metadataFile \in DOMAIN metadata : CorruptSidecar(metadataFile)

SpecStore == InitStore /\ [][NextStore]_vars

----------------------------------------------------------------------------
(* The listing functions on their own, applied to lists of records drawn   *)
(* from bounded sets.                                                      *)

\* longest list of records handed to a listing function
MaxList == 4

ListRecord(event, uploader, date, photoTime) ==
    PhotoInfo(UploadsPrefix \o NameA, NameA, uploader, event, date, photoTime)

ListPhotos ==
    { ListRecord(<<"A">>, <<"X">>, 1, 0),
      ListRecord(<<"A">>, <<"Y">>, 2, 0),
      ListRecord(<<"B">>, <<"X">>, 1, 3),
      ListRecord(<<>>, <<"X">>, 2, 1),
      ListRecord(<<"a">>, <<"X", "Y">>, 3, 2),
      ListRecord(<<"A", "B">>, <<>>, 2, 2) }

ListFilters == {<<>>, <<"A">>, <<"X">>, <<"a">>}

ListInputs == UNION {[1..n -> ListPhotos] : n \in 0..MaxList}

\* a caller holds a list of records
InitList ==
    /\ uploads = EmptyDir
    /\ metadata = EmptyDir
    /\ thumbs = EmptyDir
    /\ up = [p \in Procs |-> Idle]
    /\ rpc = "serving"
    /\ started = 0
    /\ env = 0
    /\ prev = NoSnap
    /\ clobbered = FALSE
    /\ extracted = EmptyDir
    /\ last \in {[op |-> "input", input |-> photos] : photos \in ListInputs}
    /\ jar = [c \in Clients |-> NoCookie]
    /\ loggedIn = [c \in Clients |-> FALSE]
    /\ web = NoResponse
    /\ batch = NoBatch

\* the sort at the end of GetPhotos
CallSortPhotos(photos) ==
    /\ last.op = "input" /\ photos = last.input
    /\ last' = [op |-> "sort", input |-> photos, output |-> SortPhotos(photos)]
    /\ UNCHANGED <<uploads, metadata, thumbs, up, rpc, started, env, prev, clobbered, httpvars, extracted>>

CallFilterPhotos(photos, eventFilter, uploaderFilter) ==
    /\ last.op = "input" /\ photos = last.input
    /\ last' = [op |-> "filter", input |-> photos, eventFilter |-> eventFilter,
                uploaderFilter |-> uploaderFilter,
                output |-> FilterPhotos(photos, eventFilter, uploaderFilter)]
    /\ UNCHANGED <<uploads, metadata, thumbs, up, rpc, started, env, prev, clobbered, httpvars, extracted>>

CallGetUniqueEvents(photos) ==
    /\ last.op = "input" /\ photos = last.input
    /\ last' = [op |-> "unique", input |-> photos, field |-> "Event",
                output |-> GetUniqueEvents(photos)]
    /\ UNCHANGED <<uploads, metadata, thumbs, up, rpc, started, env, prev, clobbered, httpvars, extracted>>

CallGetUniqueUploaders(photos) ==
    /\ last.op = "input" /\ photos = last.input
    /\ last' = [op |-> "unique", input |-> photos, field |-> "Uploader",
                output |-> GetUniqueUploaders(photos)]
    /\ UNCHANGED <<uploads, metadata, thumbs, up, rpc, started, env, prev, clobbered, httpvars, extracted>>

NextList ==
    \/ CallSortPhotos(last.input)
    \/ \E eventFilter \in ListFilters, uploaderFilter \in ListFilters :
            CallFilterPhotos(last.input, eventFilter, uploaderFilter)
    \/ CallGetUniqueEvents(last.input)
    \/ CallGetUniqueUploaders(last.input)

SpecList == InitList /\ [][NextList]_vars

----------------------------------------------------------------------------
(* The HTTP layer: AuthService on gorilla's CookieStore (the session is the *)
(* cookie the client holds), the handlers, and the routes.  Requests are    *)
(* taken one at a time.                                                     *)

\* most files in one upload request
MaxFiles == 2

\* GALLERY_PASSWORD
Password == <<"p", "w">>

\* passwords a client submits
Passwords == {Password, <<"P", "w">>, <<>>}

\* store.Get(r, "gallery-session"): the session and the error of decoding
StoreGet(cookie) ==
    [err |-> cookie.sent /\ ~cookie.valid,
     set |-> cookie.sent /\ cookie.valid /\ cookie.set,
     authenticated |-> cookie.sent /\ cookie.valid /\ cookie.authenticated]

IsAuthenticated(cookie) ==
    LET session == StoreGet(cookie)
    IN  IF session.err THEN FALSE
        ELSE session.set /\ session.authenticated

\* Login: its result and the cookie the client holds after the response
Login(cookie, password) ==
    IF password # Password THEN [ok |-> FALSE, cookie |-> cookie]
    ELSE IF StoreGet(cookie).err THEN [ok |-> FALSE, cookie |-> cookie]
    ELSE [ok |-> TRUE, cookie |-> SessionCookie(TRUE, SessionMaxAge)]

\* mutant: Logout expires the cookie and leaves its values alone
LogoutKeepsValues(cookie) ==
    LET session == StoreGet(cookie)
    IN  SessionCookie(session.set /\ session.authenticated, -1)

\* Logout: the cookie of the response, authenticated = false and MaxAge = -1
Logout(cookie) == SessionCookie(FALSE, -1)

\* no upload request is in progress
BetweenRequests == rpc = "serving" /\ ~batch.active /\ Quiescent

\* a client's copy of the cookie is damaged or forged
ClientTampers(c) ==
    /\ BetweenRequests
    /\ jar[c].sent /\ jar[c].valid
    /\ jar' = [jar EXCEPT ![c] = TamperedCookie]
    /\ loggedIn' = [loggedIn EXCEPT ![c] = FALSE]
    /\ UNCHANGED <<uploads, metadata, thumbs, up, rpc, started, env, prev, clobbered,
                   extracted, last, web, batch>>

HandlePostLogin(c, password) ==
    /\ BetweenRequests
    /\ LET result == Login(jar[c], password)
       IN  /\ jar' = [jar EXCEPT ![c] = result.cookie]
           /\ loggedIn' = [loggedIn EXCEPT ![c] = IF result.ok THEN TRUE ELSE @]
           /\ web' = [NoResponse EXCEPT !.op = "login", !.client = c,
                        !.authed = IsAuthenticated(jar[c]),
                        !.status = IF result.ok THEN 303 ELSE 200,
                        !.password = password, !.ok = result.ok]
    /\ UNCHANGED <<uploads, metadata, thumbs, up, rpc, started, env, prev, clobbered,
                   extracted, last, batch>>

logoutHandler(c) ==
    /\ BetweenRequests
    /\ jar' = [jar EXCEPT ![c] = Logout(jar[c])]
    /\ loggedIn' = [loggedIn EXCEPT ![c] = FALSE]
    /\ web' = [NoResponse EXCEPT !.op = "logout", !.client = c,
                 !.authed = IsAuthenticated(jar[c]), !.status = 303]
    /\ UNCHANGED <<uploads, metadata, thumbs, up, rpc, started, env, prev, clobbered,
                   extracted, last, batch>>

\* the names of the records of a list
Names(photos) == [i \in 1..Len(photos) |-> photos[i].Name]

HandleGallery(c, eventFilter, uploaderFilter) ==
    /\ BetweenRequests
    /\ LET authed == IsAuthenticated(jar[c])
           photos == GetPhotos(uploads, metadata, Now)
           filteredPhotos == FilterPhotos(photos, eventFilter, uploaderFilter)
       IN  web' = IF ~authed
                  THEN [NoResponse EXCEPT !.op = "gallery", !.client = c, !.status = 303]
                  ELSE [NoResponse EXCEPT !.op = "gallery", !.client = c,
                          !.authed = TRUE, !.status = 200, !.performed = TRUE,
                          !.content = Names(filteredPhotos),
                          !.events = GetUniqueEvents(photos),
                          !.uploaders = GetUniqueUploaders(photos)]
    /\ UNCHANGED <<uploads, metadata, thumbs, up, rpc, started, env, prev, clobbered,
                   extracted, last, jar, loggedIn, batch>>

\* mutant: the handler never answers "No photos to download"
NoPhotosToDownloadNever(filteredPhotos) == FALSE

\* if len(filteredPhotos) == 0
NoPhotosToDownload(filteredPhotos) == Len(filteredPhotos) = 0

HandleDownloadAll(c, eventFilter, uploaderFilter) ==
    /\ BetweenRequests
    /\ LET authed == IsAuthenticated(jar[c])
           photos == GetPhotos(uploads, metadata, Now)
           filteredPhotos == FilterPhotos(photos, eventFilter, uploaderFilter)
           request == [NoResponse EXCEPT !.op = "download", !.client = c,
                         !.eventFilter = eventFilter,
                         !.uploaderFilter = uploaderFilter]
       IN  web' = IF ~authed
                  THEN [request EXCEPT !.status = 401]
                  ELSE IF NoPhotosToDownload(filteredPhotos)
                  THEN [request EXCEPT !.authed = TRUE, !.status = 404,
                                       !.performed = TRUE]
                  ELSE [request EXCEPT !.authed = TRUE, !.status = 200,
                          !.performed = TRUE, !.archive = TRUE,
                          !.content = CreateZipArchive(uploads, filteredPhotos)]
    /\ UNCHANGED <<uploads, metadata, thumbs, up, rpc, started, env, prev, clobbered,
                   extracted, last, jar, loggedIn, batch>>

HandleServePhoto(c, filename) ==
    /\ BetweenRequests
    /\ LET authed == IsAuthenticated(jar[c])
       IN  web' = IF ~authed
                  THEN [NoResponse EXCEPT !.op = "photo", !.client = c, !.status = 401]
                  ELSE IF ~ServePhoto(uploads, filename)
                  THEN [NoResponse EXCEPT !.op = "photo", !.client = c,
                          !.authed = TRUE, !.status = 404, !.performed = TRUE]
                  ELSE [NoResponse EXCEPT !.op = "photo", !.client = c,
                          !.authed = TRUE, !.status = 200, !.performed = TRUE,
                          !.content = <<filename>>]
    /\ UNCHANGED <<uploads, metadata, thumbs, up, rpc, started, env, prev, clobbered,
                   extracted, last, jar, loggedIn, batch>>

\* the route "/uploads/" of main.go: http.ServeFile of the path, registered
\* without authMiddleware
serveUploads(c, filename) ==
    /\ BetweenRequests
    /\ web' = IF filename \notin DOMAIN uploads
              THEN [NoResponse EXCEPT !.op = "photo", !.client = c,
                      !.authed = IsAuthenticated(jar[c]), !.status = 404]
              ELSE [NoResponse EXCEPT !.op = "photo", !.client = c,
                      !.authed = IsAuthenticated(jar[c]), !.status = 200,
                      !.performed = TRUE, !.content = <<filename>>]
    /\ UNCHANGED <<uploads, metadata, thumbs, up, rpc, started, env, prev, clobbered,
                   extracted, last, jar, loggedIn, batch>>

\* one part of the multipart form field "photos"
FormFile(filename, contentType, body, openOk) ==
    [filename |-> filename, contentType |-> contentType, body |-> body,
     openOk |-> openOk]

FormFiles ==
    { FormFile(NameA, "image/jpeg", Body(TRUE, 0, 2), TRUE),
      FormFile(NameA, "text/plain", Body(TRUE, 0, 2), TRUE),
      FormFile(NameA, "image/jpeg", Body(FALSE, 0, 0), FALSE) }

\* uploader_name as submitted; the empty name becomes "Anonymous"
FormUsers == {<<>>, <<"A">>}

Anonymous == <<"A", "n", "o", "n", "y", "m", "o", "u", "s">>

\* HandleUpload up to its loop over the files
HandleUpload(c, uploaderName, eventName, files) ==
    /\ BetweenRequests
    /\ started + Len(files) <= MaxUploads
    /\ LET authed == IsAuthenticated(jar[c])
           userName == IF uploaderName = <<>> THEN Anonymous ELSE uploaderName
       IN  IF ~authed
           THEN /\ web' = [NoResponse EXCEPT !.op = "upload", !.client = c,
                             !.status = 401, !.files = files]
                /\ UNCHANGED batch
           ELSE IF Len(files) = 0
           THEN /\ web' = [NoResponse EXCEPT !.op = "upload", !.client = c,
                             !.authed = TRUE, !.status = 400]
                /\ UNCHANGED batch
           ELSE /\ web' = NoResponse
                /\ batch' = [NoBatch EXCEPT !.active = TRUE, !.client = c,
                               !.user = userName, !.event = eventName,
                               !.files = files, !.pending = files]
    /\ UNCHANGED <<uploads, metadata, thumbs, up, rpc, started, env, prev, clobbered,
                   extracted, last, jar, loggedIn>>

\* for _, fileHeader := range files
HandleUploadNext ==
    /\ batch.active /\ batch.pending # <<>> /\ batch.current = <<>>
    /\ Quiescent
    /\ batch' = [batch EXCEPT !.current = <<Head(batch.pending)>>,
                              !.pending = Tail(@), !.ticket = started + 1]
    /\ UNCHANGED <<uploads, metadata, thumbs, up, rpc, started, env, prev, clobbered,
                   extracted, last, jar, loggedIn, web>>

\* h.galleryService.SavePhoto(fileHeader, userName, eventName)
HandleUploadSavePhoto(p) ==
    /\ batch.current # <<>>
    /\ batch.ticket = started + 1
    /\ LET fileHeader == batch.current[1]
       IN  SavePhotoBegin(p, fileHeader.filename, fileHeader.contentType,
                          batch.user, batch.event, fileHeader.body, fileHeader.openOk)

\* mutant: the loop ends at the first file that fails
BreakOnError(err, pending) == IF err THEN <<>> ELSE pending

\* the files the loop still visits after SavePhoto returned err: on an error
\* the handler logs and continues
AfterSavePhoto(err, pending) == pending

\* err := SavePhoto(...) is back in the handler
HandleUploadResult(p) ==
    /\ batch.current # <<>>
    /\ up[p].pc = "return" /\ up[p].ticket = batch.ticket
    /\ batch' = [batch EXCEPT
                    !.current = <<>>,
                    !.outcomes = Append(@, [err |-> up[p].err,
                                            filename |-> up[p].filename,
                                            ticket |-> up[p].ticket]),
                    !.pending = AfterSavePhoto(up[p].err, @)]
    /\ UNCHANGED <<uploads, metadata, thumbs, up, rpc, started, env, prev, clobbered,
                   extracted, last, jar, loggedIn, web>>

\* the goroutine is ready for the next file
HandleUploadContinue(p) ==
    /\ batch.current = <<>>
    /\ SavePhotoReturn(p)

\* http.Redirect(w, r, "/", http.StatusSeeOther)
HandleUploadRedirect ==
    /\ batch.active /\ batch.pending = <<>> /\ batch.current = <<>>
    /\ Quiescent
    /\ web' = [NoResponse EXCEPT !.op = "upload", !.client = batch.client,
                 !.authed = TRUE, !.status = 303, !.performed = TRUE,
                 !.files = batch.files, !.outcomes = batch.outcomes]
    /\ batch' = NoBatch
    /\ UNCHANGED <<uploads, metadata, thumbs, up, rpc, started, env, prev, clobbered,
                   extracted, last, jar, loggedIn>>

FormInputs == UNION {[1..n -> FormFiles] : n \in 0..MaxFiles}

NextWeb ==
    \/ \E c \in Clients : ClientTampers(c)
    \/ \E c \in Clients, password \in Passwords : HandlePostLogin(c, password)
    \/ \E c \in Clients : logoutHandler(c)
    \/ \E c \in Clients, eventFilter \in {<<>>, <<"E">>} :
            HandleGallery(c, eventFilter, <<>>)
    \/ \E c \in Clients, uploaderFilter \in {<<>>, <<"A">>} :
            HandleDownloadAll(c, <<>>, uploaderFilter)
    \/ \E c \in Clients, filename \in UploadNames : HandleServePhoto(c, filename)
    \/ \E c \in Clients, filename \in UploadNames : serveUploads(c, filename)
    \/ \E c \in Clients, uploaderName \in FormUsers, eventName \in Events,
          files \in FormInputs : HandleUpload(c, uploaderName, eventName, files)
    \/ HandleUploadNext
    \/ HandleUploadSavePhoto(SeqProc)
    \/ SavePhotoStat(SeqProc)
    \/ \E ok \in BOOLEAN : SavePhotoCreate(SeqProc, ok)
    \/ SavePhotoCopy(SeqProc, TRUE)
    \/ SavePhotoThumbnail(SeqProc, "none")
    \/ SavePhotoMetadata(SeqProc)
    \/ HandleUploadResult(SeqProc)
    \/ HandleUploadContinue(SeqProc)
    \/ HandleUploadRedirect

\* the server is serving, the directories are empty, no client has a cookie
SpecWeb == InitStore /\ [][NextWeb]_vars

----------------------------------------------------------------------------
(* Paths.  What SavePhoto, ServePhoto and ServeThumbnail hand to the         *)
(* filesystem is filepath.Join(dir, filename): the elements joined by a      *)
(* slash and then cleaned.  A cleaned relative path is the sequence of its   *)
(* elements; the empty sequence is the working directory.                    *)

MaxDepth == 3

\* the elements of a path, split at its slashes
RECURSIVE Split(_)
Split(path) ==
    IF \A i \in 1..Len(path) : path[i] # Slash THEN <<path>>
    ELSE LET i == CHOOSE k \in 1..Len(path) :
                      path[k] = Slash /\ \A j \in 1..(k - 1) : path[j] # Slash
         IN  <<SubSeq(path, 1, i - 1)>> \o Split(SubSeq(path, i + 1, Len(path)))

\* filepath.Clean on the elements of a relative path: empty elements and "."
\* are dropped, ".." removes the element before it, and stays when there is
\* none to remove.
RECURSIVE CleanElements(_, _)
CleanElements(elements, out) ==
    IF elements = <<>> THEN out
    ELSE LET el == Head(elements)
             rest == Tail(elements)
         IN  IF el = <<>> \/ el = <<Dot>> THEN CleanElements(rest, out)
             ELSE IF el = <<Dot, Dot>>
             THEN IF out # <<>> /\ out[Len(out)] # <<Dot, Dot>>
                  THEN CleanElements(rest, SubSeq(out, 1, Len(out) - 1))
                  ELSE CleanElements(rest, Append(out, el))
             ELSE CleanElements(rest, Append(out, el))

\* filepath.Join(dir, name) for a cleaned relative dir
Join(dir, name) == CleanElements(dir \o Split(name), <<>>)

uploadDir == <<<<"u">>>>
metadataDir == <<<<"m">>>>
\* thumbnailDir: filepath.Join(metadataDir, "thumbnails")
thumbnailDir == Join(metadataDir, <<"t">>)

PhotoElement == <<"a">>
SidecarElement == <<"a", ".", "j">>

\* the tree the service runs in: one photo, its sidecar and its thumbnail
Tree ==
    {<<>>, uploadDir, Append(uploadDir, PhotoElement),
     metadataDir, Append(metadataDir, SidecarElement),
     thumbnailDir, Append(thumbnailDir, PhotoElement)}

\* os.Stat(path) gives no IsNotExist error
StatPath(path) == path \in Tree

\* generateUniqueFilename's loop from counter on
RECURSIVE UniqueFilenameFrom(_, _, _)
UniqueFilenameFrom(nameWithoutExt, ext, counter) ==
    LET newFilename == nameWithoutExt \o <<"_">> \o Itoa(counter) \o ext
    IN  IF ~StatPath(Join(uploadDir, newFilename)) THEN newFilename
        ELSE UniqueFilenameFrom(nameWithoutExt, ext, counter + 1)

generateUniqueFilename(originalFilename) ==
    LET base == Base(originalFilename)
    IN  IF ~StatPath(Join(uploadDir, base)) THEN base
        ELSE UniqueFilenameFrom(TrimSuffix(base, Ext(base)), Ext(base), 1)

\* the path SavePhoto creates: filepath.Join(s.uploadDir, filename)
SavePhotoPath(originalFilename) ==
    Join(uploadDir, generateUniqueFilename(originalFilename))

\* ServePhoto's result: the path, or the error "file not found"
ServePhotoPath(filename) ==
    LET filePath == Join(uploadDir, filename)
    IN  [path |-> filePath, err |-> ~StatPath(filePath)]

\* ServeThumbnail's result: the path, or the error "thumbnail not found"
ServeThumbnailPath(filename) ==
    LET thumbnailPath == Join(thumbnailDir, filename)
    IN  [path |-> thumbnailPath, err |-> ~StatPath(thumbnailPath)]

\* the elements a client puts into a filename
ClientElements ==
    {PhotoElement, SidecarElement, <<Dot, Dot>>, <<Dot>>, <<>>,
     <<"u">>, <<"m">>, <<"t">>}

RECURSIVE Slashed(_)
Slashed(elements) ==
    IF Len(elements) = 1 THEN elements[1]
    ELSE elements[1] \o <<Slash>> \o Slashed(Tail(elements))

ClientFilenames ==
    {Slashed(els) : els \in UNION {[1..n -> ClientElements] : n \in 1..MaxDepth}}

\* every variable but last, as the running server has them with empty
\* directories
Serving ==
    /\ uploads = EmptyDir
    /\ metadata = EmptyDir
    /\ thumbs = EmptyDir
    /\ up = [p \in Procs |-> Idle]
    /\ rpc = "serving"
    /\ started = 0
    /\ env = 0
    /\ prev = NoSnap
    /\ clobbered = FALSE
    /\ extracted = EmptyDir
    /\ jar = [c \in Clients |-> NoCookie]
    /\ loggedIn = [c \in Clients |-> FALSE]
    /\ web = NoResponse
    /\ batch = NoBatch

OnlyLast == UNCHANGED <<uploads, metadata, thumbs, up, rpc, started, env, prev,
                        clobbered, httpvars, extracted>>

InitPath ==
    /\ Serving
    /\ last \in {[op |-> "input", input |-> name] : name \in ClientFilenames}

CallSavePhotoPath(filename) ==
    /\ last.op = "input" /\ filename = last.input
    /\ last' = [op |-> "savePath", input |-> filename,
                output |-> [path |-> SavePhotoPath(filename), err |-> FALSE]]
    /\ OnlyLast

CallServePhoto(filename) ==
    /\ last.op = "input" /\ filename = last.input
    /\ last' = [op |-> "servePhoto", input |-> filename,
                output |-> ServePhotoPath(filename)]
    /\ OnlyLast

CallServeThumbnail(filename) ==
    /\ last.op = "input" /\ filename = last.input
    /\ last' = [op |-> "serveThumbnail", input |-> filename,
                output |-> ServeThumbnailPath(filename)]
    /\ OnlyLast

NextPath ==
    \/ CallSavePhotoPath(last.input)
    \/ CallServePhoto(last.input)
    \/ CallServeThumbnail(last.input)

SpecPath == InitPath /\ [][NextPath]_vars

----------------------------------------------------------------------------
(* generateThumbnail after image.Decode has succeeded: the dimensions of    *)
(* the thumbnail, the resize and the creation of the thumbnail file, for    *)
(* decoded images whose sides are drawn from a bounded set.  A division by  *)
(* zero is a run-time panic.                                                *)

MaxSide == 8

thumbnailSize == 300

\* mutant: always scales the width to thumbnailSize
thumbnailDimensionsByWidth(width, height) ==
    IF width = 0
    THEN [panic |-> TRUE, newWidth |-> 0, newHeight |-> 0]
    ELSE [panic |-> FALSE, newWidth |-> thumbnailSize,
          newHeight |-> (height * thumbnailSize) \div width]

\* lines 826-838
thumbnailDimensions(width, height) ==
    IF width > height
    THEN IF width = 0
         THEN [panic |-> TRUE, newWidth |-> 0, newHeight |-> 0]
         ELSE [panic |-> FALSE, newWidth |-> thumbnailSize,
               newHeight |-> (height * thumbnailSize) \div width]
    ELSE IF height = 0
         THEN [panic |-> TRUE, newWidth |-> 0, newHeight |-> 0]
         ELSE [panic |-> FALSE, newHeight |-> thumbnailSize,
               newWidth |-> (width * thumbnailSize) \div height]

\* resizeImage divides by width and height inside its loops over
\* 0..height-1 and 0..width-1: with a side of 0 no division is made
resizeImagePanics(width, height) ==
    \E y \in 0..(height - 1) : \E x \in 0..(width - 1) : width = 0 \/ height = 0

\* generateThumbnail from the decoded image on, os.Create succeeding:
\* the error returned, whether it panicked, and whether the thumbnail file
\* was created
generateThumbnailDecoded(width, height) ==
    LET d == thumbnailDimensions(width, height)
    IN  IF d.panic \/ resizeImagePanics(d.newWidth, d.newHeight)
        THEN [err |-> "none", panic |-> TRUE, created |-> FALSE,
              newWidth |-> 0, newHeight |-> 0]
        ELSE [err |-> "none", panic |-> FALSE, created |-> TRUE,
              newWidth |-> d.newWidth, newHeight |-> d.newHeight]

Sides == 0..MaxSide \cup {299, 300, 301, 600}

InitThumb ==
    /\ Serving
    /\ last \in {[op |-> "input", input |-> [width |-> w, height |-> h]] :
                    w \in Sides, h \in Sides}

CallGenerateThumbnail(img) ==
    /\ last.op = "input" /\ img = last.input
    /\ last' = [op |-> "thumbnail", input |-> img,
                output |-> generateThumbnailDecoded(img.width, img.height)]
    /\ OnlyLast

NextThumb == CallGenerateThumbnail(last.input)

SpecThumb == InitThumb /\ [][NextThumb]_vars

----------------------------------------------------------------------------
(* extractPhotoTime on its own.  What the two sources meet at a path:       *)
(* whether exiftool is installed (exec.LookPath), whether the file can be   *)
(* opened, and the first date string each source can parse, as the instant  *)
(* time.Parse gives for it (<<>>: no parseable date).  "0001:01:01          *)
(* 00:00:00" parses to the zero time.                                       *)

MaxDate == 2

Probe(installed, opens, toolDate, exifDate) ==
    [installed |-> installed, opens |-> opens,
     toolDate |-> toolDate, exifDate |-> exifDate]

\* extractPhotoTimeWithExifTool: LookPath, then the fields in turn
extractPhotoTimeWithExifToolProbe(probe) ==
    IF ~probe.installed THEN 0
    ELSE IF ~probe.opens \/ probe.toolDate = <<>> THEN 0
    ELSE probe.toolDate[1]

\* extractExifPhotoTime: os.Open, exif.Decode, then the fields in turn
extractExifPhotoTimeProbe(probe) ==
    IF ~probe.opens THEN 0
    ELSE IF probe.exifDate = <<>> THEN 0
    ELSE probe.exifDate[1]

\* mutant: the in-process parser is asked first
extractPhotoTimeExifFirst(probe) ==
    LET photoTime == extractExifPhotoTimeProbe(probe)
    IN  IF photoTime # 0
        THEN [time |-> photoTime, consulted |-> <<"exif">>, err |-> FALSE]
        ELSE [time |-> extractPhotoTimeWithExifToolProbe(probe),
              consulted |-> <<"exif", "exiftool">>, err |-> FALSE]

\* extractPhotoTime: the time returned and the sources it called, in order
extractPhotoTimeProbe(probe) ==
    LET photoTime == extractPhotoTimeWithExifToolProbe(probe)
    IN  IF photoTime # 0
        THEN [time |-> photoTime, consulted |-> <<"exiftool">>, err |-> FALSE]
        ELSE [time |-> extractExifPhotoTimeProbe(probe),
              consulted |-> <<"exiftool", "exif">>, err |-> FALSE]

ParsedDates == {<<>>} \cup {<<t>> : t \in 0..MaxDate}

Probes ==
    {Probe(i, o, t, x) : i \in BOOLEAN, o \in BOOLEAN,
                         t \in ParsedDates, x \in ParsedDates}

InitTime ==
    /\ Serving
    /\ last \in {[op |-> "input", input |-> probe] : probe \in Probes}

CallExtractPhotoTime(probe) ==
    /\ last.op = "input" /\ probe = last.input
    /\ last' = [op |-> "photoTime", input |-> probe,
                output |-> extractPhotoTimeProbe(probe)]
    /\ OnlyLast

NextTime == CallExtractPhotoTime(last.input)

SpecTime == InitTime /\ [][NextTime]_vars

----------------------------------------------------------------------------
(* GetPhotos called while the service runs: between the steps of one        *)
(* SavePhoto call, between restarts and between changes from outside.       *)

\* the files GetPhotos finds no readable record for and calls
\* extractPhotoTime on
FallbackFiles(up_, md) ==
    {file \in DOMAIN up_ :
        /\ ~IsDir(up_[file]) /\ isImageFile(file)
        /\ loadPhotoMetadata(md, file).Path = <<>>}

CallGetPhotos ==
    /\ rpc = "serving"
    /\ last' = [op |-> "getPhotos", output |-> GetPhotos(uploads, metadata, Now)]
    /\ extracted' = CountExtractions(extracted, FallbackFiles(uploads, metadata))
    /\ UNCHANGED <<uploads, metadata, thumbs, up, rpc, started, env, prev,
                   clobbered, httpvars>>

NextRead ==
    \/ Quiescent /\ Begin(SeqProc)
    \/ Continue(SeqProc)
    \/ Reconcile
    \/ Environment
    \/ CallGetPhotos

SpecRead == Init /\ [][NextRead]_vars

----------------------------------------------------------------------------
(* GetPhotos on its own, applied to upload and metadata directories drawn   *)
(* from bounded sets: each name is absent, a file or a directory, and its   *)
(* sidecar is absent, readable or unparseable.                              *)

ListingNames == {NameA, NameA1, NameTxt}

ListingEntries ==
    {File(0, 1, body) : body \in UploadBodies \cup ExternalBodies} \cup {Directory(1)}

\* the upload directories with the names of S
StoredDirs(S) == [S -> ListingEntries]

ListingRecord(filename) ==
    PhotoInfo(UploadsPrefix \o filename, filename, <<"A">>, <<"E">>, 1, 0)

\* the metadata directories with the sidecars of the names of S
SidecarDirs(S) ==
    {[s \in {filename \o JsonSuffix : filename \in S} |->
         IF TrimSuffix(s, JsonSuffix) \in readable
         THEN Marshal(ListingRecord(TrimSuffix(s, JsonSuffix)))
         ELSE CorruptDoc] : readable \in SUBSET S}

InitListing ==
    /\ \E S \in SUBSET ListingNames : uploads \in StoredDirs(S)
    /\ \E S \in SUBSET ListingNames : metadata \in SidecarDirs(S)
    /\ thumbs = EmptyDir
    /\ up = [p \in Procs |-> Idle]
    /\ rpc = "serving"
    /\ started = 1
    /\ env = 0
    /\ prev = NoSnap
    /\ clobbered = FALSE
    /\ extracted = [file \in DOMAIN uploads |->
                       IF MetadataExists(metadata, file) THEN 1 ELSE 0]
    /\ last = NoOp
    /\ jar = [c \in Clients |-> NoCookie]
    /\ loggedIn = [c \in Clients |-> FALSE]
    /\ web = NoResponse
    /\ batch = NoBatch

NextListing == CallGetPhotos

SpecListing == InitListing /\ [][NextListing]_vars

----------------------------------------------------------------------------
(* Properties. *)

\* name_N<ext> for the five-character names x.eee of the inputs, N < 10
Suffixed(name, N) == SubSeq(name, 1, 1) \o <<"_", Digit(N)>> \o SubSeq(name, 2, 5)

\* the goroutine has created its file (os.Create returned without error)
Writing(p) == up[p].pc \in {"copy", "thumbnail", "metadata"}

\* a pass has completed and nothing has touched the directories since
AfterPass == rpc = "serving" /\ prev.set

\* the sidecar of filename holds a record that reads back
HasReadableRecord(filename) == loadPhotoMetadata(metadata, filename).Path # <<>>

\* C1: with SavePhoto calls one after another, the name a call is about to
\* create is unused in the upload directory; it is the original name when
\* that is unused, and otherwise name_N<ext> with N the smallest positive
\* integer whose name is unused; no call ever truncates a stored file.
C1_UniqueNameSequential ==
    /\ ~clobbered
    /\ \A p \in Procs :
        up[p].pc = "create" =>
            LET orig == up[p].orig
                filename == up[p].filename
            IN  /\ filename \notin DOMAIN uploads
                /\ IF orig \notin DOMAIN uploads
                   THEN filename = orig
                   ELSE \E N \in 1..9 :
                            /\ filename = Suffixed(orig, N)
                            /\ \A k \in 1..(N - 1) : Suffixed(orig, k) \in DOMAIN uploads

\* C1 witness: a call is about to create a_2.JPG, a.JPG and a_1.JPG being
\* in the directory already.
C1_Witness ==
    \E p \in Procs :
        /\ up[p].pc = "create"
        /\ up[p].orig = NameA
        /\ up[p].filename = Suffixed(NameA, 2)
        /\ {NameA, NameA1} \subseteq DOMAIN uploads

\* C2: under any interleaving of SavePhoto calls no os.Create truncates a
\* file another upload stored, and two uploads that have created their
\* files never hold the same stored filename.
C2_NoOverwriteConcurrent ==
    /\ ~clobbered
    /\ \A p, q \in Procs :
        (p # q /\ Writing(p) /\ Writing(q)) => up[p].filename # up[q].filename

\* C3: once a reconciliation pass has completed, every recognized image
\* file in storage has its sidecar, and every sidecar is that of a
\* recognized image file that exists in storage.
C3_SidecarsMatchImages ==
    AfterPass =>
        /\ \A f \in DOMAIN uploads :
                isImageFile(f) => (f \o JsonSuffix) \in DOMAIN metadata
        /\ \A s \in DOMAIN metadata :
                \E f \in DOMAIN uploads : isImageFile(f) /\ s = f \o JsonSuffix

C5_CleanupRemovesExactlyOrphans ==
    [][ /\ (rpc = "cleanMetadata" /\ rpc' = "cleanThumbnails") =>
            /\ DOMAIN metadata' =
                 {s \in DOMAIN metadata : TrimSuffix(s, JsonSuffix) \in DOMAIN uploads}
            /\ \A s \in DOMAIN metadata' : metadata'[s] = metadata[s]
            /\ UNCHANGED <<uploads, thumbs>>
        /\ (rpc = "cleanThumbnails" /\ rpc' = "serving") =>
            /\ DOMAIN thumbs' = {t \in DOMAIN thumbs : t \in DOMAIN uploads}
            /\ \A t \in DOMAIN thumbs' : thumbs'[t] = thumbs[t]
            /\ UNCHANGED <<uploads, metadata>>
      ]_vars

\* the photo stored as filename has its record: the file exists and no
\* upload is still on its way to writing that record
Settled(filename) ==
    /\ filename \in DOMAIN uploads
    /\ \A p \in Procs : ~(Writing(p) /\ up[p].filename = filename)

\* C6: no step of an upload or of a reconciliation pass removes or changes
\* the sidecar of a photo that is in storage and has its record.
C6_RecordNeverChanges ==
    [][ env' = env =>
            \A s \in DOMAIN metadata :
                Settled(TrimSuffix(s, JsonSuffix)) =>
                    /\ s \in DOMAIN metadata'
                    /\ metadata'[s] = metadata[s]
      ]_vars

\* C6 witness: a pass has completed over the photo a.JPG and its sidecar
\* still names the uploader the upload supplied.
C6_Witness ==
    /\ AfterPass
    /\ NameA \in DOMAIN uploads
    /\ loadPhotoMetadata(metadata, NameA).Uploader \in Users

\* C7: GenerateMissingMetadata persists, for every recognized image file
\* without a sidecar, the record with name = filename, path =
\* /uploads/<filename>, uploader "Unknown", empty event, uploadTime = the
\* file's modification time and photoTime = the extractor's result.
C7_BackfillDefaults ==
    [][ (rpc = "genMetadata" /\ rpc' = "genThumbnails") =>
            \A f \in DOMAIN uploads :
                (isImageFile(f) /\ (f \o JsonSuffix) \notin DOMAIN metadata) =>
                    /\ (f \o JsonSuffix) \in DOMAIN metadata'
                    /\ loadPhotoMetadata(metadata', f) =
                         [Path |-> UploadsPrefix \o f, Name |-> f,
                          Uploader |-> Unknown, Event |-> <<>>,
                          Date |-> uploads[f].mtime,
                          PhotoTime |-> extractPhotoTime(uploads[f].body)]
      ]_vars

\* C7 witness: the backfill has just written the record of a file that was
\* put into storage from outside, with a photo time found by the extractor.
C7_Witness ==
    /\ rpc = "genThumbnails"
    /\ ~prev.set
    /\ \E f \in DOMAIN uploads :
        /\ uploads[f].ticket = 0
        /\ loadPhotoMetadata(metadata, f).Uploader = Unknown
        /\ loadPhotoMetadata(metadata, f).PhotoTime # 0

\* every string of the record is valid UTF-8 and both times are in the
\* range time.Time.MarshalJSON encodes
ValidRecord(info) ==
    /\ \A str \in {info.Path, info.Name, info.Uploader, info.Event} :
            \A i \in 1..Len(str) : str[i] # BadByte
    /\ TimeEncodable(info.Date)
    /\ TimeEncodable(info.PhotoTime)

C9_LoadMissingOrCorruptIsEmpty ==
    last.op = "load" =>
        /\ last.found \in {"missing", "corrupt"} =>
                (last.info = EmptyPhotoInfo /\ last.info.Path = <<>>)
        /\ last.before = dirs

\* C9 witness: a load has met a sidecar that does not parse.
C9_Witness == last.op = "load" /\ last.found = "corrupt"

\* C10: after a reconciliation pass no recognized image is left with a
\* record that cannot be read: a corrupt sidecar has been replaced by a
\* regenerated default record, as a missing one is.
C10_CorruptSidecarRegenerated ==
    AfterPass =>
        \A f \in DOMAIN uploads : isImageFile(f) => HasReadableRecord(f)

\* the record's time as the claims state it: photoTime if non-zero, else uploadTime
ClaimedTime(r) == IF r.PhotoTime # 0 THEN r.PhotoTime ELSE r.Date

\* t is s rearranged: every record occurs as often in t as in s
IsPermutation(s, t) ==
    /\ Len(s) = Len(t)
    /\ \A r \in {s[i] : i \in 1..Len(s)} \cup {t[i] : i \in 1..Len(t)} :
            Cardinality({i \in 1..Len(s) : s[i] = r})
                = Cardinality({i \in 1..Len(t) : t[i] = r})

\* C11: the sort of GetPhotos returns a permutation of the loaded records in
\* which no record is followed, anywhere later in the list, by one with a
\* strictly later effective time (photoTime if non-zero, else uploadTime).
C11_SortedDescending ==
    last.op = "sort" =>
        /\ IsPermutation(last.input, last.output)
        /\ \A i, j \in 1..Len(last.output) :
                i < j => ClaimedTime(last.output[i]) >= ClaimedTime(last.output[j])

\* a list of three records that had to be reordered, one of them without a
\* photo time, placed by its upload time between two with a photo time
C11_Witness ==
    /\ last.op = "sort"
    /\ Len(last.output) >= 3
    /\ last.output # last.input
    /\ last.output[2].PhotoTime = 0
    /\ last.output[1].PhotoTime > last.output[2].Date
    /\ last.output[3].PhotoTime # 0
    /\ last.output[2].Date > last.output[3].PhotoTime

\* the indices of the records the filters of the claim accept
Accepted(photos, eventFilter, uploaderFilter) ==
    {i \in 1..Len(photos) :
        /\ (eventFilter = <<>> \/ photos[i].Event = eventFilter)
        /\ (uploaderFilter = <<>> \/ photos[i].Uploader = uploaderFilter)}

\* C12: FilterPhotos returns exactly the records accepted by both filters (an
\* empty filter accepts everything, otherwise exact string equality), in
\* input order; with both filters empty it returns the input.
C12_FilterExact ==
    last.op = "filter" =>
        LET acc == Accepted(last.input, last.eventFilter, last.uploaderFilter)
        IN  /\ Len(last.output) = Cardinality(acc)
            /\ \A k \in 1..Len(last.output) :
                    \E i \in acc :
                        /\ Cardinality({m \in acc : m <= i}) = k
                        /\ last.output[k] = last.input[i]
            /\ (last.eventFilter = <<>> /\ last.uploaderFilter = <<>>
                    => last.output = last.input)

\* both filters set, some record rejected by each filter alone and one kept
C12_Witness ==
    /\ last.op = "filter"
    /\ last.eventFilter # <<>> /\ last.uploaderFilter # <<>>
    /\ Len(last.output) = 1
    /\ \E i \in 1..Len(last.input) :
            last.input[i].Event = last.eventFilter
            /\ last.input[i].Uploader # last.uploaderFilter
    /\ \E i \in 1..Len(last.input) :
            last.input[i].Event # last.eventFilter
            /\ last.input[i].Uploader = last.uploaderFilter

\* the values of the field named in last.field
FieldValues(photos, field) ==
    {IF field = "Event" THEN photos[i].Event ELSE photos[i].Uploader :
        i \in 1..Len(photos)}

\* C13: GetUniqueEvents and GetUniqueUploaders return exactly the distinct
\* non-empty values of the field, each once, in strictly ascending
\* lexicographic order.
C13_UniqueSorted ==
    last.op = "unique" =>
        /\ {last.output[i] : i \in 1..Len(last.output)}
                = FieldValues(last.input, last.field) \ {<<>>}
        /\ \A i, j \in 1..Len(last.output) :
                i < j => StringGreater(last.output[j], last.output[i])

\* a value met twice, an empty value, and values that had to be reordered
C13_Witness ==
    /\ last.op = "unique"
    /\ \E i, j \in 1..Len(last.input) :
            i # j /\ last.input[i].Event = last.input[j].Event
                  /\ last.input[i].Event # <<>> /\ last.field = "Event"
    /\ \E i \in 1..Len(last.input) : last.input[i].Event = <<>>
    /\ Len(last.output) = 2
    /\ last.input[1].Event = last.output[2]

\* SavePhoto is about to return nil to its caller
Succeeded(p) == up[p].pc = "return" /\ ~up[p].err

\* the list holds a record of that name
Lists(photos, filename) == \E i \in 1..Len(photos) : photos[i].Name = filename

\* C14: when SavePhoto returns success, storage holds the file under the
\* assigned name, the sidecar of that name carries the supplied uploader and
\* event, and the next GetPhotos has a record of that name, which FilterPhotos
\* returns for its event and leaves out for another event.
C14_SavedPhotoListed ==
    \A p \in Procs :
        Succeeded(p) =>
            LET filename == up[p].filename
                photos == GetPhotos(uploads, metadata, Now)
            IN  /\ filename \in DOMAIN uploads
                /\ loadPhotoMetadata(metadata, filename).Uploader = up[p].user
                /\ loadPhotoMetadata(metadata, filename).Event = up[p].event
                /\ Lists(photos, filename)
                /\ Lists(FilterPhotos(photos, up[p].event, <<>>), filename)
                /\ ~Lists(FilterPhotos(photos, <<"Z">>, <<>>), filename)

\* the content types the claim names
AcceptedTypes == {"image/jpeg", "image/jpg", "image/png", "image/gif", "image/webp"}

\* C15: SavePhoto goes on to storage only for a declared content type that is
\* exactly one of image/jpeg, image/jpg, image/png, image/gif, image/webp; for
\* any other type the call returns an error and no step of it changes the
\* upload, metadata or thumbnail directory.
C15_OnlyListedTypesAccepted ==
    [][\A p \in Procs :
        /\ (up[p].pc = "idle" /\ up'[p].pc # "idle") =>
                /\ (up'[p].pc # "return" => up'[p].ctype \in AcceptedTypes)
                /\ (up'[p].ctype \notin AcceptedTypes =>
                        up'[p].pc = "return" /\ up'[p].err /\ dirs' = dirs)
        /\ (up[p].pc # "idle" /\ up[p].ctype \notin AcceptedTypes) =>
                /\ up[p].pc = "return" /\ up[p].err
                /\ dirs' = dirs
      ]_vars

\* a call with a content type that differs from a listed one only in case has
\* been rejected while storage holds an earlier upload
C15_Witness ==
    /\ \E p \in Procs : up[p].pc = "return" /\ up[p].err /\ up[p].ctype = "image/JPEG"
    /\ DOMAIN uploads # {}
    /\ DOMAIN metadata # {}

\* C16: when generateThumbnail fails inside SavePhoto, the call still returns
\* success with the file and its sidecar stored, and ServeThumbnail reports
\* not-found for the filename.
C16_FailedThumbnailNotFound ==
    \A p \in Procs :
        (Succeeded(p) /\ up[p].thumbErr) =>
            /\ up[p].filename \in DOMAIN uploads
            /\ (up[p].filename \o JsonSuffix) \in DOMAIN metadata
            /\ ~ServeThumbnail(thumbs, up[p].filename)

\* C17: listing photos, serving a stored photo, accepting an upload and
\* building the ZIP export are performed only for a request whose session is
\* authenticated: a request without one gets no photo content and the
\* handler does not go on to the photos.
C17_OnlyAuthenticatedServed ==
    (web.op \in {"gallery", "photo", "upload", "download"}
        /\ (web.performed \/ web.content # <<>>))
    => web.authed

C19_FailedLoginClearsSession ==
    (web.op = "login" /\ ~web.ok /\ web.password # Password /\ web.authed)
    => ~IsAuthenticated(jar[web.client])

\* C20: an upload request that ends with the redirect has called SavePhoto for
\* every file of the form, whatever happened to the files before it; every
\* file SavePhoto accepted is stored with its bytes and its sidecar, and only
\* files that were rejected or hit an I/O error are missing.
C20_BatchIsolated ==
    (web.op = "upload" /\ web.status = 303) =>
        /\ Len(web.outcomes) = Len(web.files)
        /\ \A i \in 1..Len(web.outcomes) :
            LET fileHeader == web.files[i]
                outcome == web.outcomes[i]
            IN  /\ (fileHeader.contentType \notin AcceptedTypes \/ ~fileHeader.openOk)
                        => outcome.err
                /\ ~outcome.err =>
                        /\ outcome.filename \in DOMAIN uploads
                        /\ uploads[outcome.filename].ticket = outcome.ticket
                        /\ uploads[outcome.filename].body = fileHeader.body
                        /\ loadPhotoMetadata(metadata, outcome.filename).Name
                                = outcome.filename

\* a request of two files has ended with the redirect: the first file failed,
\* the second was saved
C20_Witness ==
    /\ web.op = "upload" /\ web.status = 303
    /\ Len(web.files) = 2
    /\ web.outcomes[1].err
    /\ ~web.outcomes[2].err
    /\ web.outcomes[2].filename \in DOMAIN uploads

\* C21: a ZIP export whose filters match no photo is answered with 404 and
\* no archive; an archive is written only when at least one photo matches,
\* and each of its entries is named by the bare filename of a stored file
\* that matched.
C21_ExportOfNothingIsNotFound ==
    [][(web' # web /\ web'.op = "download" /\ web'.authed) =>
        LET matched == FilterPhotos(GetPhotos(uploads, metadata, Now),
                                    web'.eventFilter, web'.uploaderFilter)
        IN  /\ Len(matched) = 0 =>
                    web'.status = 404 /\ ~web'.archive /\ web'.content = <<>>
            /\ web'.archive => Len(matched) >= 1 /\ web'.status = 200
            /\ \A k \in 1..Len(web'.content) :
                    /\ web'.content[k] \in DOMAIN uploads
                    /\ \A n \in 1..Len(web'.content[k]) : web'.content[k][n] # Slash
                    /\ \E i \in 1..Len(matched) : matched[i].Name = web'.content[k]
      ]_vars

\* photos are stored, the filter of the export matched none of them
C21_Witness ==
    /\ web.op = "download" /\ web.authed /\ web.status = 404
    /\ web.uploaderFilter # <<>>
    /\ Len(GetPhotos(uploads, metadata, Now)) >= 1

\* path lies inside dir: below it, at any depth
Inside(path, dir) ==
    /\ Len(path) > Len(dir)
    /\ SubSeq(path, 1, Len(dir)) = dir

\* path lies directly inside dir: it is dir and one more element
DirectlyInside(path, dir) == Inside(path, dir) /\ Len(path) = Len(dir) + 1

\* C22: whatever filename the client supplies, SavePhoto writes directly
\* inside the upload directory, and the path ServePhoto or ServeThumbnail
\* returns lies inside the upload or the thumbnail directory.
C22_PathConfined ==
    /\ last.op = "savePath" => DirectlyInside(last.output.path, uploadDir)
    /\ (last.op = "servePhoto" /\ ~last.output.err) =>
            Inside(last.output.path, uploadDir)
    /\ (last.op = "serveThumbnail" /\ ~last.output.err) =>
            Inside(last.output.path, thumbnailDir)

\* C23: for every decoded size (w, h) with w, h >= 1 the thumbnail's longer
\* side is thumbnailSize: the longer source side is mapped to it and the
\* other side is floor(other * thumbnailSize / longer).
C23_LongestSideIsTarget ==
    (last.op = "thumbnail" /\ last.input.width >= 1 /\ last.input.height >= 1) =>
        LET w == last.input.width
            h == last.input.height
            nw == last.output.newWidth
            nh == last.output.newHeight
        IN  /\ ~last.output.panic
            /\ nw <= thumbnailSize /\ nh <= thumbnailSize
            /\ nw = thumbnailSize \/ nh = thumbnailSize
            /\ w >= h => /\ nw = thumbnailSize
                         /\ nh * w <= h * thumbnailSize
                         /\ h * thumbnailSize < (nh + 1) * w
            /\ h >= w => /\ nh = thumbnailSize
                         /\ nw * h <= w * thumbnailSize
                         /\ w * thumbnailSize < (nw + 1) * h

\* a portrait image and a landscape image whose shorter side does not scale
\* to a whole number
C23_Witness ==
    /\ last.op = "thumbnail"
    /\ last.input.width >= 1 /\ last.input.height > last.input.width
    /\ (last.input.width * thumbnailSize) % last.input.height # 0
    /\ last.output.newHeight = thumbnailSize
    /\ last.output.newWidth >= 1

\* C24: for a decoded image whose width or height is 0, generateThumbnail
\* returns a decode error, divides by zero nowhere and creates no thumbnail
\* file.
C24_DegenerateIsDecodeError ==
    (last.op = "thumbnail" /\ (last.input.width = 0 \/ last.input.height = 0)) =>
        /\ last.output.err = "decode"
        /\ ~last.output.panic
        /\ ~last.output.created

\* the external tool yields a parseable date for the probed file
ToolYields(probe) == probe.installed /\ probe.opens /\ probe.toolDate # <<>>

\* the in-process parser yields a parseable date for the probed file
ExifYields(probe) == probe.opens /\ probe.exifDate # <<>>

C26_ExtractedAtMostOnce ==
    \A file \in DOMAIN extracted : extracted[file] <= 1

\* the files GetPhotos lists: not a directory, recognized extension
ListedFiles == {file \in DOMAIN uploads : ~IsDir(uploads[file]) /\ isImageFile(file)}

\* the record GetPhotos owes for a listed file: the one its sidecar holds,
\* or the defaults when there is no sidecar that reads back
RecordOwed(file) ==
    IF HasReadableRecord(file)
    THEN Unmarshal(metadata[file \o JsonSuffix])
    ELSE [Path |-> UploadsPrefix \o file, Name |-> file, Uploader |-> Unknown,
          Event |-> <<>>, Date |-> Now,
          PhotoTime |-> IF uploads[file].body.tool # 0 THEN uploads[file].body.tool
                        ELSE uploads[file].body.exif]

\* C28: a GetPhotos call returns exactly one record per non-directory file
\* with a recognized image extension, the defaults being synthesized for a
\* file without a readable sidecar, and leaves the upload, metadata and
\* thumbnail directories as they were.
C28_GetPhotosReadOnly ==
    [][(last'.op = "getPhotos" /\ <<up, rpc, started, env>>' = <<up, rpc, started, env>>) =>
        /\ <<uploads, metadata, thumbs>>' = <<uploads, metadata, thumbs>>
        /\ Len(last'.output) = Cardinality(ListedFiles)
        /\ \A file \in ListedFiles :
                \E i \in 1..Len(last'.output) : last'.output[i] = RecordOwed(file)
      ]_vars

\* a photo without a sidecar was listed with the defaults beside a photo
\* listed from its sidecar, a text file and a directory were left out, and
\* no sidecar has appeared
C28_Witness ==
    /\ last.op = "getPhotos"
    /\ Len(last.output) = 2
    /\ Cardinality(DOMAIN uploads) = 3
    /\ \E i \in 1..2 :
            /\ last.output[i].Uploader = Unknown
            /\ last.output[i].Name \in DOMAIN uploads
            /\ ~MetadataExists(metadata, last.output[i].Name)
    /\ \E i \in 1..2 : last.output[i].Uploader = <<"A">>
    /\ \E file \in DOMAIN uploads : IsDir(uploads[file])

\* C29: a GetPhotos call made while a SavePhoto call is between creating
\* its file and returning either omits that photo or lists it with the
\* uploader and event of the upload, never with the synthesized defaults.
C29_NoDefaultsDuringUpload ==
    [][(last'.op = "getPhotos" /\ <<up, rpc, started, env>>' = <<up, rpc, started, env>>) =>
        \A p \in Procs : Writing(p) =>
            \A i \in 1..Len(last'.output) :
                last'.output[i].Name = up[p].filename =>
                    /\ last'.output[i].Uploader = up[p].user
                    /\ last'.output[i].Event = up[p].event
      ]_vars

\* C30: when SavePhoto returns an error, the upload directory holds no file
\* that call created, and no thumbnail was made from such a file.
C30_ErrorLeavesNothing ==
    \A p \in Procs :
        (up[p].pc = "return" /\ up[p].err) =>
            /\ \A file \in DOMAIN uploads : uploads[file].ticket # up[p].ticket
            /\ \A t \in DOMAIN thumbs : thumbs[t].of # up[p].ticket

\* the thumbnail stored for file was made from another file than the one
\* now stored under that name
Stale(file) ==
    /\ file \in DOMAIN thumbs /\ file \in DOMAIN uploads
    /\ thumbs[file].of # uploads[file].ticket

\* C27 as stated: no operation, upload or reconciliation, rewrites a
\* thumbnail file that already exists.
C27_NeverRewritten ==
    [][\A t \in DOMAIN thumbs \cap DOMAIN thumbs' : thumbs'[t] = thumbs[t]]_vars

\* C27: GenerateMissingThumbnails generates a thumbnail only for a filename
\* that has none and leaves every existing thumbnail file as it is, also a
\* stale one; SavePhoto generates the thumbnail of the file it has stored
\* without looking for an existing one, and when that succeeds the file
\* under the assigned name is the new thumbnail.
C27_OnlyReconciliationSkipsExisting ==
    [][ /\ (rpc = "genThumbnails" /\ rpc' = "cleanMetadata") =>
            \A t \in DOMAIN thumbs : t \in DOMAIN thumbs' /\ thumbs'[t] = thumbs[t]
        /\ \A p \in Procs :
            (up[p].pc = "thumbnail" /\ up'[p].pc = "metadata") =>
                /\ \A t \in DOMAIN thumbs \ {up[p].filename} :
                        t \in DOMAIN thumbs' /\ thumbs'[t] = thumbs[t]
                /\ ~up'[p].thumbErr =>
                        thumbs'[up[p].filename] =
                            [of |-> up[p].ticket, complete |-> TRUE]
      ]_vars

\* a pass has run over a thumbnail made from an earlier file of the same
\* name and has left it in place
C27_Witness ==
    /\ AfterPass
    /\ \E file \in DOMAIN uploads : Stale(file) /\ isImageFile(file)

====
